---------------------------- MODULE Spec2Model ----------------------------
(***************************************************************************)
(* A model of the PDFEditor component (src/src/components/PDFEditor.tsx). *)
(*                                                                         *)
(* The React state of the component is the state of the machine; every    *)
(* event handler is one action.  React applies all the state setters of   *)
(* one handler invocation together, so a handler is one atomic step.      *)
(*                                                                         *)
(* Numbers.  The zoom scale is kept in tenths (scale = 10 is 1.0), pointer *)
(* coordinates and the canvas origin in tenths of a CSS pixel, so that     *)
(* (clientX - rect.left) / scale is a quotient of two integers.  The       *)
(* pointer inputs are the positions whose quotient is a whole number of    *)
(* document units; arithmetic is exact (IEEE rounding is not modelled).    *)
(***************************************************************************)
EXTENDS Integers, Sequences, FiniteSets, TLC

(***************************************************************************)
(* Bounds of the explored environment.                                     *)
(***************************************************************************)
\* pages of the well-formed multi-page document the user can select
MaxPages == 2
\* text annotations / blur areas the user creates before removing some:
\* in the specification of all events, and in those of the pointer tools
MaxAnnotations == 1
MaxText == 2
MaxBlur == 2
\* zoom clicks away from the default scale, in the specifications that
\* do not explore the whole zoom range
MaxZoom == 1
\* exports in flight at once
MaxExports == 1
\* Date.now() readings: FirstTime .. FirstTime + MaxTicks
MaxTicks == 1
\* exports in flight at once, where the Download button is clicked again
\* before the first export has settled
MaxRacing == 2

(***************************************************************************)
(* Program constants.                                                      *)
(***************************************************************************)
DefaultScale == 10
ZoomStep == 2
MaxScale == 30
MinScale == 5
DefaultFontSize == 16
MinBlurSize == 10
EraseRadius == 30
\* opacity of an exported blur rectangle, in tenths
BlurOpacity == 7

(***************************************************************************)
(* The environment's fixed data.                                           *)
(***************************************************************************)
\* getBoundingClientRect() of the canvas, in tenths of a pixel
RectLeft == 70
RectTop == 30
\* page.getHeight() of every page of the documents
PageHeight == 100
\* the first Date.now() reading of the session
FirstTime == 9

Null == "null"
NoPoint == <<>>
NoToast == "none"
NoDownload == [page |-> 0, draws |-> <<>>]

\* colours are the strings of <input type="color">: "#rrggbb"
DefaultColor == <<"#", "0", "0", "0", "0", "0", "0">>
Red == <<"#", "f", "f", "0", "0", "0", "0">>

PdfType == "application/pdf"

\* The files the user can pick: a well-formed document of MaxPages pages, one
\* of a single page, a document for which the rendering service reports zero
\* pages, bytes that are not a document, and a file of another media type.
PdfFiles == {"doc.pdf", "single.pdf", "empty.pdf", "broken.pdf"}
AllFiles == PdfFiles \cup {"notes.txt"}

FileType(f) == IF f \in PdfFiles THEN PdfType ELSE "text/plain"

\* pages of the parsed file; -1: the bytes cannot be parsed
FilePages(f) ==
  CASE f = "doc.pdf" -> MaxPages
    [] f = "single.pdf" -> 1
    [] f = "empty.pdf" -> 0
    [] OTHER -> -1

Tools == {"select", "text", "blur", "erase"}

Min(a, b) == IF a < b THEN a ELSE b
Max(a, b) == IF a > b THEN a ELSE b
Abs(a) == IF a < 0 THEN -a ELSE a

\* Number.prototype.toString of a non-negative integer: its decimal digits
RECURSIVE NumberToString(_)
NumberToString(n) ==
  IF n < 10 THEN <<n>> ELSE Append(NumberToString(n \div 10), n % 10)

\* String.prototype.trim on a sequence of characters
RECURSIVE TrimStart(_)
TrimStart(s) == IF s # <<>> /\ Head(s) = " " THEN TrimStart(Tail(s)) ELSE s

RECURSIVE TrimEnd(_)
TrimEnd(s) ==
  IF s # <<>> /\ s[Len(s)] = " " THEN TrimEnd(SubSeq(s, 1, Len(s) - 1)) ELSE s

Trim(s) == TrimEnd(TrimStart(s))


VARIABLES
  pdfFile,          \* the selected File, or Null
  numPages,
  currentPage,
  scale,            \* in tenths
  activeTool,
  textAnnotations,  \* sequence of [id, x, y, text, fontSize, color]
  blurAreas,        \* sequence of [id, x, y, width, height]
  isDrawing,
  startPoint,       \* <<x, y>> or NoPoint
  newText,          \* sequence of characters
  fontSize,
  textColor,
  pdfLoading,
  docState,         \* the <Document> of the rendering service:
                    \* "none" | "loading" | "ready" | "failed"
  exports,          \* the downloadModifiedPDF calls in flight: what each closed over
  download,         \* the file the last event handed to the browser, or NoDownload
  toast             \* the notification the last event raised, or NoToast

vars == <<pdfFile, numPages, currentPage, scale, activeTool, textAnnotations,
          blurAreas, isDrawing, startPoint, newText, fontSize, textColor,
          pdfLoading, docState, exports, download, toast>>

docVars == <<pdfFile, numPages, currentPage, pdfLoading, docState>>
textVars == <<newText, fontSize, textColor>>
dragVars == <<isDrawing, startPoint>>
storeVars == <<textAnnotations, blurAreas>>

Init ==
  /\ pdfFile = Null
  /\ numPages = 0
  /\ currentPage = 1
  /\ scale = DefaultScale
  /\ activeTool = "select"
  /\ textAnnotations = <<>>
  /\ blurAreas = <<>>
  /\ isDrawing = FALSE
  /\ startPoint = NoPoint
  /\ newText = <<>>
  /\ fontSize = DefaultFontSize
  /\ textColor = DefaultColor
  /\ pdfLoading = FALSE
  /\ docState = "none"
  /\ exports = <<>>
  /\ download = NoDownload
  /\ toast = NoToast

(***************************************************************************)
(* What is mounted, and which controls are enabled.                        *)
(***************************************************************************)
\* the canvas <div>, the page navigation and the <Document>
CanvasMounted == pdfFile # Null
ToolbarMounted == pdfFile # Null
DownloadMounted == pdfFile # Null
\* "Upload PDF" in the header, "Choose PDF File" on the empty screen
UploadEnabled == ~pdfLoading \/ pdfFile = Null

(***************************************************************************)
(* Coordinate mapping.                                                     *)
(***************************************************************************)
\* (event.clientX - rect.left) / scale
ToDocumentX(clientX) == (clientX - RectLeft) \div scale
ToDocumentY(clientY) == (clientY - RectTop) \div scale

(***************************************************************************)
(* Document loading.                                                       *)
(***************************************************************************)
\* handleFileUpload without setBlurAreas([])
handleFileUpload_KeepsBlur(file) ==
  /\ UploadEnabled
  /\ IF file # Null /\ FileType(file) = PdfType
     THEN /\ pdfLoading' = TRUE
          /\ pdfFile' = file
          /\ textAnnotations' = <<>>
          /\ currentPage' = 1
          /\ docState' = "loading"
          /\ toast' = "PDF file selected, loading..."
          /\ UNCHANGED <<numPages, blurAreas>>
     ELSE /\ toast' = "Please select a valid PDF file"
          /\ UNCHANGED <<docVars, storeVars>>
  /\ download' = NoDownload
  /\ UNCHANGED <<scale, activeTool, dragVars, textVars, exports>>

\* handleFileUpload without the test of file.type
handleFileUpload_AnyType(file) ==
  /\ UploadEnabled
  /\ IF file # Null
     THEN /\ pdfLoading' = TRUE
          /\ pdfFile' = file
          /\ textAnnotations' = <<>>
          /\ blurAreas' = <<>>
          /\ currentPage' = 1
          /\ docState' = "loading"
          /\ toast' = "PDF file selected, loading..."
          /\ UNCHANGED numPages
     ELSE /\ toast' = "Please select a valid PDF file"
          /\ UNCHANGED <<docVars, storeVars>>
  /\ download' = NoDownload
  /\ UNCHANGED <<scale, activeTool, dragVars, textVars, exports>>

\* handleFileUpload without setPdfLoading(true)
handleFileUpload_NoLoadingFlag(file) ==
  /\ UploadEnabled
  /\ IF file # Null /\ FileType(file) = PdfType
     THEN /\ pdfFile' = file
          /\ textAnnotations' = <<>>
          /\ blurAreas' = <<>>
          /\ currentPage' = 1
          /\ docState' = "loading"
          /\ toast' = "PDF file selected, loading..."
          /\ UNCHANGED <<numPages, pdfLoading>>
     ELSE /\ toast' = "Please select a valid PDF file"
          /\ UNCHANGED <<docVars, storeVars>>
  /\ download' = NoDownload
  /\ UNCHANGED <<scale, activeTool, dragVars, textVars, exports>>

\* file: a file name, or Null when the change event carries no file
handleFileUpload(file) ==
  /\ UploadEnabled
  /\ IF file # Null /\ FileType(file) = PdfType
     THEN /\ pdfLoading' = TRUE
          /\ pdfFile' = file
          /\ textAnnotations' = <<>>
          /\ blurAreas' = <<>>
          /\ currentPage' = 1
          /\ docState' = "loading"
          /\ toast' = "PDF file selected, loading..."
          /\ UNCHANGED numPages
     ELSE /\ toast' = "Please select a valid PDF file"
          /\ UNCHANGED <<docVars, storeVars>>
  /\ download' = NoDownload
  /\ UNCHANGED <<scale, activeTool, dragVars, textVars, exports>>

\* onDocumentLoadSuccess without setCurrentPage(1)
onDocumentLoadSuccess_KeepsPage(n) ==
  /\ docState = "loading"
  /\ n = FilePages(pdfFile)
  /\ n >= 0
  /\ numPages' = n
  /\ pdfLoading' = FALSE
  /\ docState' = "ready"
  /\ toast' = "PDF loaded successfully!"
  /\ download' = NoDownload
  /\ UNCHANGED <<pdfFile, currentPage, scale, activeTool, storeVars, dragVars,
                 textVars, exports>>

onDocumentLoadSuccess(n) ==
  /\ docState = "loading"
  /\ n = FilePages(pdfFile)
  /\ n >= 0
  /\ numPages' = n
  /\ currentPage' = 1
  /\ pdfLoading' = FALSE
  /\ docState' = "ready"
  /\ toast' = "PDF loaded successfully!"
  /\ download' = NoDownload
  /\ UNCHANGED <<pdfFile, scale, activeTool, storeVars, dragVars, textVars,
                 exports>>

\* onDocumentLoadError without setPdfLoading(false)
onDocumentLoadError_KeepsLoading ==
  /\ docState = "loading"
  /\ FilePages(pdfFile) < 0
  /\ docState' = "failed"
  /\ toast' = "Failed to load PDF file. Please try again."
  /\ download' = NoDownload
  /\ UNCHANGED <<pdfFile, numPages, currentPage, pdfLoading, scale, activeTool,
                 storeVars, dragVars, textVars, exports>>

onDocumentLoadError ==
  /\ docState = "loading"
  /\ FilePages(pdfFile) < 0
  /\ pdfLoading' = FALSE
  /\ docState' = "failed"
  /\ toast' = "Failed to load PDF file. Please try again."
  /\ download' = NoDownload
  /\ UNCHANGED <<pdfFile, numPages, currentPage, scale, activeTool, storeVars,
                 dragVars, textVars, exports>>

(***************************************************************************)
(* Pointer events on the canvas.                                           *)
(***************************************************************************)
\* handleCanvasClick without setNewText('')
handleCanvasClick_KeepsText(clientX, clientY, now) ==
  /\ CanvasMounted
  /\ IF activeTool # "text"
     THEN /\ toast' = NoToast
          /\ UNCHANGED <<textAnnotations, newText>>
     ELSE IF Trim(newText) = <<>>
     THEN /\ toast' = "Please enter text before placing it on the PDF"
          /\ UNCHANGED <<textAnnotations, newText>>
     ELSE /\ textAnnotations' =
               Append(textAnnotations,
                      [id |-> NumberToString(now),
                       x |-> ToDocumentX(clientX),
                       y |-> ToDocumentY(clientY),
                       text |-> newText,
                       fontSize |-> fontSize,
                       color |-> textColor])
          /\ toast' = "Text annotation added"
          /\ UNCHANGED newText
  /\ download' = NoDownload
  /\ UNCHANGED <<docVars, scale, activeTool, blurAreas, dragVars, fontSize,
                 textColor, exports>>

\* handleCanvasClick without the check of the pending text
handleCanvasClick_NoValidation(clientX, clientY, now) ==
  /\ CanvasMounted
  /\ IF activeTool # "text"
     THEN /\ toast' = NoToast
          /\ UNCHANGED <<textAnnotations, newText>>
     ELSE /\ textAnnotations' =
               Append(textAnnotations,
                      [id |-> NumberToString(now),
                       x |-> ToDocumentX(clientX),
                       y |-> ToDocumentY(clientY),
                       text |-> newText,
                       fontSize |-> fontSize,
                       color |-> textColor])
          /\ newText' = <<>>
          /\ toast' = "Text annotation added"
  /\ download' = NoDownload
  /\ UNCHANGED <<docVars, scale, activeTool, blurAreas, dragVars, fontSize,
                 textColor, exports>>

handleCanvasClick(clientX, clientY, now) ==
  /\ CanvasMounted
  /\ IF activeTool # "text"
     THEN /\ toast' = NoToast
          /\ UNCHANGED <<textAnnotations, newText>>
     ELSE IF Trim(newText) = <<>>
     THEN /\ toast' = "Please enter text before placing it on the PDF"
          /\ UNCHANGED <<textAnnotations, newText>>
     ELSE /\ textAnnotations' =
               Append(textAnnotations,
                      [id |-> NumberToString(now),
                       x |-> ToDocumentX(clientX),
                       y |-> ToDocumentY(clientY),
                       text |-> newText,
                       fontSize |-> fontSize,
                       color |-> textColor])
          /\ newText' = <<>>
          /\ toast' = "Text annotation added"
  /\ download' = NoDownload
  /\ UNCHANGED <<docVars, scale, activeTool, blurAreas, dragVars, fontSize,
                 textColor, exports>>

\* distance >= 30 in place of distance > 30
FartherThanEraseRadius_AtLeast(annotation, x, y) ==
  (annotation.x - x) * (annotation.x - x)
    + (annotation.y - y) * (annotation.y - y) >= EraseRadius * EraseRadius

\* distance > 30, for Math.sqrt(dx^2 + dy^2) > 30 (both sides are >= 0)
FartherThanEraseRadius(annotation, x, y) ==
  (annotation.x - x) * (annotation.x - x)
    + (annotation.y - y) * (annotation.y - y) > EraseRadius * EraseRadius

\* !(x >= area.x && x <= area.x + area.width && y >= area.y && y <= area.y + area.height)
OutsideArea(area, x, y) ==
  ~(/\ x >= area.x
    /\ x <= area.x + area.width
    /\ y >= area.y
    /\ y <= area.y + area.height)

handleMouseDown(clientX, clientY) ==
  /\ CanvasMounted
  /\ LET x == ToDocumentX(clientX)
         y == ToDocumentY(clientY)
         keepText(a) == FartherThanEraseRadius(a, x, y)
         keepArea(a) == OutsideArea(a, x, y)
     IN  \/ /\ activeTool = "blur"
            /\ startPoint' = <<x, y>>
            /\ isDrawing' = TRUE
            /\ toast' = NoToast
            /\ UNCHANGED storeVars
         \/ /\ activeTool = "erase"
            /\ textAnnotations' = SelectSeq(textAnnotations, keepText)
            /\ blurAreas' = SelectSeq(blurAreas, keepArea)
            /\ toast' = "Annotation erased"
            /\ UNCHANGED dragVars
         \/ /\ activeTool \notin {"blur", "erase"}
            /\ toast' = NoToast
            /\ UNCHANGED <<storeVars, dragVars>>
  /\ download' = NoDownload
  /\ UNCHANGED <<docVars, scale, activeTool, textVars, exports>>

\* handleMouseUp without the test of width and height
handleMouseUp_AnySize(clientX, clientY, now) ==
  /\ CanvasMounted
  /\ IF isDrawing /\ startPoint # NoPoint /\ activeTool = "blur"
     THEN LET endX == ToDocumentX(clientX)
              endY == ToDocumentY(clientY)
              width == Abs(endX - startPoint[1])
              height == Abs(endY - startPoint[2])
              x == Min(startPoint[1], endX)
              y == Min(startPoint[2], endY)
          IN  /\ blurAreas' =
                   Append(blurAreas,
                          [id |-> NumberToString(now), x |-> x, y |-> y,
                           width |-> width, height |-> height])
              /\ toast' = "Blur area added"
     ELSE /\ toast' = NoToast
          /\ UNCHANGED blurAreas
  /\ isDrawing' = FALSE
  /\ startPoint' = NoPoint
  /\ download' = NoDownload
  /\ UNCHANGED <<docVars, scale, activeTool, textAnnotations, textVars,
                 exports>>

\* handleMouseUp with width >= 10 && height >= 10
handleMouseUp_AtLeast(clientX, clientY, now) ==
  /\ CanvasMounted
  /\ IF isDrawing /\ startPoint # NoPoint /\ activeTool = "blur"
     THEN LET endX == ToDocumentX(clientX)
              endY == ToDocumentY(clientY)
              width == Abs(endX - startPoint[1])
              height == Abs(endY - startPoint[2])
              x == Min(startPoint[1], endX)
              y == Min(startPoint[2], endY)
          IN  IF width >= MinBlurSize /\ height >= MinBlurSize
              THEN /\ blurAreas' =
                        Append(blurAreas,
                               [id |-> NumberToString(now), x |-> x, y |-> y,
                                width |-> width, height |-> height])
                   /\ toast' = "Blur area added"
              ELSE /\ toast' = "Blur area too small - drag a larger area"
                   /\ UNCHANGED blurAreas
     ELSE /\ toast' = NoToast
          /\ UNCHANGED blurAreas
  /\ isDrawing' = FALSE
  /\ startPoint' = NoPoint
  /\ download' = NoDownload
  /\ UNCHANGED <<docVars, scale, activeTool, textAnnotations, textVars,
                 exports>>

handleMouseUp(clientX, clientY, now) ==
  /\ CanvasMounted
  /\ IF isDrawing /\ startPoint # NoPoint /\ activeTool = "blur"
     THEN LET endX == ToDocumentX(clientX)
              endY == ToDocumentY(clientY)
              width == Abs(endX - startPoint[1])
              height == Abs(endY - startPoint[2])
              x == Min(startPoint[1], endX)
              y == Min(startPoint[2], endY)
          IN  IF width > MinBlurSize /\ height > MinBlurSize
              THEN /\ blurAreas' =
                        Append(blurAreas,
                               [id |-> NumberToString(now), x |-> x, y |-> y,
                                width |-> width, height |-> height])
                   /\ toast' = "Blur area added"
              ELSE /\ toast' = "Blur area too small - drag a larger area"
                   /\ UNCHANGED blurAreas
     ELSE /\ toast' = NoToast
          /\ UNCHANGED blurAreas
  /\ isDrawing' = FALSE
  /\ startPoint' = NoPoint
  /\ download' = NoDownload
  /\ UNCHANGED <<docVars, scale, activeTool, textAnnotations, textVars,
                 exports>>

(***************************************************************************)
(* The toolbar.                                                            *)
(***************************************************************************)
\* the x button of one entry of the annotations list
removeAnnotation(id, type) ==
  /\ ToolbarMounted
  /\ LET other(a) == a.id # id
     IN  IF type = "text"
         THEN /\ \E i \in 1..Len(textAnnotations) : textAnnotations[i].id = id
              /\ textAnnotations' = SelectSeq(textAnnotations, other)
              /\ UNCHANGED blurAreas
         ELSE /\ \E i \in 1..Len(blurAreas) : blurAreas[i].id = id
              /\ blurAreas' = SelectSeq(blurAreas, other)
              /\ UNCHANGED textAnnotations
  /\ toast' = "Annotation removed"
  /\ download' = NoDownload
  /\ UNCHANGED <<docVars, scale, activeTool, dragVars, textVars, exports>>

setActiveTool(tool) ==
  /\ ToolbarMounted
  /\ activeTool' = tool
  /\ toast' = NoToast
  /\ download' = NoDownload
  /\ UNCHANGED <<docVars, scale, storeVars, dragVars, textVars, exports>>

\* the inputs of the text settings, shown while the text tool is active
setNewText(value) ==
  /\ ToolbarMounted
  /\ activeTool = "text"
  /\ newText' = value
  /\ toast' = NoToast
  /\ download' = NoDownload
  /\ UNCHANGED <<docVars, scale, activeTool, storeVars, dragVars, fontSize,
                 textColor, exports>>

setFontSize(value) ==
  /\ ToolbarMounted
  /\ activeTool = "text"
  /\ fontSize' = value
  /\ toast' = NoToast
  /\ download' = NoDownload
  /\ UNCHANGED <<docVars, scale, activeTool, storeVars, dragVars, newText,
                 textColor, exports>>

setTextColor(value) ==
  /\ ToolbarMounted
  /\ activeTool = "text"
  /\ textColor' = value
  /\ toast' = NoToast
  /\ download' = NoDownload
  /\ UNCHANGED <<docVars, scale, activeTool, storeVars, dragVars, newText,
                 fontSize, exports>>

\* zoomIn that also rescales the stored blur areas to the new scale
zoomIn_RescalesAreas ==
  /\ ToolbarMounted
  /\ ~(scale >= MaxScale)
  /\ scale' = Min(scale + ZoomStep, MaxScale)
  /\ blurAreas' =
       [i \in 1..Len(blurAreas) |->
          [blurAreas[i] EXCEPT !.width = (@ * scale') \div scale,
                               !.height = (@ * scale') \div scale]]
  /\ toast' = NoToast
  /\ download' = NoDownload
  /\ UNCHANGED <<docVars, activeTool, textAnnotations, dragVars, textVars,
                 exports>>

\* zoomIn without Math.min(..., 3.0)
zoomIn_Unclamped ==
  /\ ToolbarMounted
  /\ ~(scale >= MaxScale)
  /\ scale' = scale + ZoomStep
  /\ toast' = NoToast
  /\ download' = NoDownload
  /\ UNCHANGED <<docVars, activeTool, storeVars, dragVars, textVars, exports>>

zoomIn ==
  /\ ToolbarMounted
  /\ ~(scale >= MaxScale)
  /\ scale' = Min(scale + ZoomStep, MaxScale)
  /\ toast' = NoToast
  /\ download' = NoDownload
  /\ UNCHANGED <<docVars, activeTool, storeVars, dragVars, textVars, exports>>

zoomOut ==
  /\ ToolbarMounted
  /\ ~(scale <= MinScale)
  /\ scale' = Max(scale - ZoomStep, MinScale)
  /\ toast' = NoToast
  /\ download' = NoDownload
  /\ UNCHANGED <<docVars, activeTool, storeVars, dragVars, textVars, exports>>

(***************************************************************************)
(* Page navigation.                                                        *)
(***************************************************************************)
previousPage ==
  /\ CanvasMounted
  /\ ~(currentPage <= 1)
  /\ currentPage' = Max(currentPage - 1, 1)
  /\ toast' = NoToast
  /\ download' = NoDownload
  /\ UNCHANGED <<pdfFile, numPages, pdfLoading, docState, scale, activeTool,
                 storeVars, dragVars, textVars, exports>>

\* the next-page button of an editor that keeps annotations per page: the
\* collections are emptied for the page that is shown next
nextPage_ClearsStore ==
  /\ CanvasMounted
  /\ ~(currentPage >= numPages)
  /\ currentPage' = Min(currentPage + 1, numPages)
  /\ textAnnotations' = <<>>
  /\ blurAreas' = <<>>
  /\ toast' = NoToast
  /\ download' = NoDownload
  /\ UNCHANGED <<pdfFile, numPages, pdfLoading, docState, scale, activeTool,
                 dragVars, textVars, exports>>

nextPage ==
  /\ CanvasMounted
  /\ ~(currentPage >= numPages)
  /\ currentPage' = Min(currentPage + 1, numPages)
  /\ toast' = NoToast
  /\ download' = NoDownload
  /\ UNCHANGED <<pdfFile, numPages, pdfLoading, docState, scale, activeTool,
                 storeVars, dragVars, textVars, exports>>

(***************************************************************************)
(* Export.                                                                 *)
(***************************************************************************)
\* parseInt(c, 16) of one hexadecimal digit
HexDigit(c) ==
  CASE c = "0" -> 0 [] c = "1" -> 1 [] c = "2" -> 2 [] c = "3" -> 3
    [] c = "4" -> 4 [] c = "5" -> 5 [] c = "6" -> 6 [] c = "7" -> 7
    [] c = "8" -> 8 [] c = "9" -> 9 [] c = "a" -> 10 [] c = "b" -> 11
    [] c = "c" -> 12 [] c = "d" -> 13 [] c = "e" -> 14 [] c = "f" -> 15

\* parseInt(color.slice(i - 1, i + 1), 16), positions counted from 1
ParseHexPair(color, i) == 16 * HexDigit(color[i]) + HexDigit(color[i + 1])

\* rgb(r / 255, g / 255, b / 255): the three numerators
Rgb(color) ==
  <<ParseHexPair(color, 2), ParseHexPair(color, 4), ParseHexPair(color, 6)>>

DrawText(annotation) ==
  [op |-> "drawText",
   text |-> annotation.text,
   x |-> annotation.x,
   y |-> PageHeight - annotation.y,
   size |-> annotation.fontSize,
   color |-> Rgb(annotation.color)]

\* page.drawRectangle with y: page.getHeight() - area.y
DrawRectangle_FromTop(area) ==
  [op |-> "drawRectangle",
   x |-> area.x,
   y |-> PageHeight - area.y,
   width |-> area.width,
   height |-> area.height,
   opacity |-> BlurOpacity]

DrawRectangle(area) ==
  [op |-> "drawRectangle",
   x |-> area.x,
   y |-> PageHeight - area.y - area.height,
   width |-> area.width,
   height |-> area.height,
   opacity |-> BlurOpacity]

\* the draw calls of one export, in the order they are issued
Draws(texts, areas) ==
  [i \in 1..Len(texts) |-> DrawText(texts[i])]
    \o [i \in 1..Len(areas) |-> DrawRectangle(areas[i])]

\* The call up to its first await: it closes over the state of the render
\* in which the button was clicked.
downloadModifiedPDF ==
  /\ DownloadMounted
  /\ IF pdfFile = Null
     THEN /\ toast' = "No PDF file loaded"
          /\ UNCHANGED exports
     ELSE /\ toast' = "Generating modified PDF..."
          /\ exports' = Append(exports,
                               [file |-> pdfFile,
                                page |-> currentPage,
                                texts |-> textAnnotations,
                                areas |-> blurAreas])
  /\ download' = NoDownload
  /\ UNCHANGED <<docVars, scale, activeTool, storeVars, dragVars, textVars>>

\* ExportSettle that empties both collections once the file is delivered
ExportSettle_ClearsStore(i) ==
  /\ i \in 1..Len(exports)
  /\ LET e == exports[i]
         parsed == FilePages(e.file) >= 0
         pageExists == e.page >= 1 /\ e.page <= FilePages(e.file)
         drawsAny == e.texts # <<>> \/ e.areas # <<>>
     IN  IF parsed /\ (pageExists \/ ~drawsAny)
         THEN /\ download' = [page |-> e.page, draws |-> Draws(e.texts, e.areas)]
              /\ toast' = "PDF downloaded successfully!"
              /\ textAnnotations' = <<>>
              /\ blurAreas' = <<>>
         ELSE /\ toast' = "Failed to save PDF. Please try again."
              /\ download' = NoDownload
              /\ UNCHANGED storeVars
  /\ exports' = [k \in 1..(Len(exports) - 1) |->
                   IF k < i THEN exports[k] ELSE exports[k + 1]]
  /\ UNCHANGED <<docVars, scale, activeTool, dragVars, textVars>>

\* ExportSettle that reads the page index and the collections of the
\* latest render in place of those the call closed over
ExportSettle_ReadsLatest(i) ==
  /\ i \in 1..Len(exports)
  /\ LET e == exports[i]
         parsed == FilePages(e.file) >= 0
         pageExists == currentPage >= 1 /\ currentPage <= FilePages(e.file)
         drawsAny == textAnnotations # <<>> \/ blurAreas # <<>>
     IN  IF parsed /\ (pageExists \/ ~drawsAny)
         THEN /\ download' = [page |-> currentPage,
                              draws |-> Draws(textAnnotations, blurAreas)]
              /\ toast' = "PDF downloaded successfully!"
         ELSE /\ toast' = "Failed to save PDF. Please try again."
              /\ download' = NoDownload
  /\ exports' = [k \in 1..(Len(exports) - 1) |->
                   IF k < i THEN exports[k] ELSE exports[k + 1]]
  /\ UNCHANGED <<docVars, scale, activeTool, storeVars, dragVars, textVars>>

\* The rest of call i: parse, draw, save, deliver - or the catch block.
\* pages[currentPage - 1] is undefined past the last page, and is only
\* dereferenced by a draw call.
ExportSettle(i) ==
  /\ i \in 1..Len(exports)
  /\ LET e == exports[i]
         parsed == FilePages(e.file) >= 0
         pageExists == e.page >= 1 /\ e.page <= FilePages(e.file)
         drawsAny == e.texts # <<>> \/ e.areas # <<>>
     IN  IF parsed /\ (pageExists \/ ~drawsAny)
         THEN /\ download' = [page |-> e.page, draws |-> Draws(e.texts, e.areas)]
              /\ toast' = "PDF downloaded successfully!"
         ELSE /\ toast' = "Failed to save PDF. Please try again."
              /\ download' = NoDownload
  /\ exports' = [k \in 1..(Len(exports) - 1) |->
                   IF k < i THEN exports[k] ELSE exports[k + 1]]
  /\ UNCHANGED <<docVars, scale, activeTool, storeVars, dragVars, textVars>>

(***************************************************************************)
(* The environment: which events arrive, with which inputs.                *)
(***************************************************************************)
\* the pointer positions that fall on the document points pts at the
\* current scale
ClientPoints(pts) ==
  {<<RectLeft + p[1] * scale, RectTop + p[2] * scale>> : p \in pts}

Times == FirstTime..(FirstTime + MaxTicks)

DocumentEvents(files) ==
  \/ \E f \in files \cup {Null} : handleFileUpload(f)
  \/ \E n \in 0..MaxPages : onDocumentLoadSuccess(n)
  \/ onDocumentLoadError

NavigationEvents ==
  \/ previousPage
  \/ nextPage

\* a click, press or release is left out only where it would take a
\* collection past its bound
PointerEvents(clickPts, downPts, upPts, times, maxText, maxBlur) ==
  \/ /\ activeTool = "text" => Len(textAnnotations) < maxText
     /\ \E p \in ClientPoints(clickPts), t \in times :
          handleCanvasClick(p[1], p[2], t)
  \/ \E p \in ClientPoints(downPts) : handleMouseDown(p[1], p[2])
  \/ /\ (isDrawing /\ activeTool = "blur") => Len(blurAreas) < maxBlur
     /\ \E p \in ClientPoints(upPts), t \in times : handleMouseUp(p[1], p[2], t)

ToolbarEvents(texts, sizes, colors) ==
  \/ \E i \in 1..Len(textAnnotations) :
       removeAnnotation(textAnnotations[i].id, "text")
  \/ \E i \in 1..Len(blurAreas) : removeAnnotation(blurAreas[i].id, "blur")
  \/ \E tool \in Tools : setActiveTool(tool)
  \/ \E value \in texts : setNewText(value)
  \/ \E value \in sizes : setFontSize(value)
  \/ \E value \in colors : setTextColor(value)

ZoomEvents(lowest, highest) ==
  \/ scale < highest /\ zoomIn
  \/ scale > lowest /\ zoomOut

ExportEvents(maxExports) ==
  \/ Len(exports) < maxExports /\ downloadModifiedPDF
  \/ \E i \in 1..Len(exports) : ExportSettle(i)

\* the user waits for the outcome of an export before clicking Download
\* again; every other event still arrives while the export is in flight
ExportsInTurn ==
  \/ exports = <<>> /\ downloadModifiedPDF
  \/ \E i \in 1..Len(exports) : ExportSettle(i)

ZoomLow == DefaultScale - MaxZoom * ZoomStep
ZoomHigh == DefaultScale + MaxZoom * ZoomStep

\* document points: boundary cases of the blur threshold and the erase radius
\*   (0,0)-(11,11): an 11 x 11 drag;   (11,11)-(21,22): 10 x 11, too small
\*   (0,0)-(18,24): distance 30;       (0,0)-(21,22): distance > 30
Origin == <<0, 0>>
Corner == <<11, 11>>
GeomPoints == {Origin, Corner, <<18, 24>>, <<21, 22>>}

(***************************************************************************)
(* Spec: every event of the editor, with few inputs of each kind.          *)
(***************************************************************************)
Next ==
  \/ DocumentEvents(AllFiles)
  \/ NavigationEvents
  \/ PointerEvents({Origin}, {Origin}, {Corner}, {FirstTime},
                   MaxAnnotations, MaxAnnotations)
  \/ ToolbarEvents({<<"a">>}, {DefaultFontSize}, {DefaultColor})
  \/ ZoomEvents(ZoomLow, ZoomHigh)
  \/ ExportEvents(MaxExports)

Spec == Init /\ [][Next]_vars

(***************************************************************************)
(* Specifications with more inputs of one kind and fewer events.           *)
(*                                                                         *)
(* SpecDoc: every file, page navigation and all tools, without export.     *)
(* SpecText: the text tool, with blank and non-blank pending texts, two    *)
(* font sizes and two colours.  SpecIds: creations at equal and at         *)
(* different clock readings.  SpecGeom: the blur and erase tools on the    *)
(* points of GeomPoints.  SpecZoom: the whole zoom range.  SpecExport: the *)
(* tools, two colours and one export at a time of a one-page file, with    *)
(* every other event arriving while it is in flight.  SpecRace: uploads,   *)
(* navigation and repeated clicks of Download.                             *)
(*                                                                         *)
(* Export steps write only exports, download and toast, and page           *)
(* navigation writes only currentPage, which no tool handler reads: the    *)
(* specifications of the tools leave both out and load a one-page file.    *)
(***************************************************************************)
Blank == <<" ">>
Indented == <<" ", "a">>
LargeFontSize == 24
FarPoint == <<21, 22>>
ToolFiles == {"single.pdf", "broken.pdf"}

NextDoc ==
  \/ DocumentEvents(AllFiles)
  \/ NavigationEvents
  \/ PointerEvents({Origin}, {Origin}, {Corner}, {FirstTime},
                   MaxAnnotations, MaxAnnotations)
  \/ ToolbarEvents({<<"a">>}, {DefaultFontSize}, {DefaultColor})
  \/ ZoomEvents(ZoomLow, ZoomHigh)

SpecDoc == Init /\ [][NextDoc]_vars

NextText ==
  \/ DocumentEvents(ToolFiles)
  \/ PointerEvents({Corner}, {Origin}, {Corner}, {FirstTime},
                   MaxText, MaxAnnotations)
  \/ ToolbarEvents({<<>>, Blank, Indented}, {DefaultFontSize, LargeFontSize},
                   {DefaultColor, Red})
  \/ ZoomEvents(DefaultScale, ZoomHigh)

SpecText == Init /\ [][NextText]_vars

NextIds ==
  \/ DocumentEvents(ToolFiles)
  \/ PointerEvents({Origin}, {Origin}, {Corner}, Times, MaxText, MaxBlur)
  \/ ToolbarEvents({<<"a">>}, {DefaultFontSize}, {DefaultColor})
  \/ ZoomEvents(DefaultScale, ZoomHigh)

SpecIds == Init /\ [][NextIds]_vars

NextGeom ==
  \/ DocumentEvents(ToolFiles)
  \/ PointerEvents({Origin, FarPoint}, GeomPoints, GeomPoints, {FirstTime},
                   MaxAnnotations, MaxBlur)
  \/ ToolbarEvents({<<"a">>}, {DefaultFontSize}, {DefaultColor})
  \/ ZoomEvents(DefaultScale, ZoomHigh)

SpecGeom == Init /\ [][NextGeom]_vars

NextZoom ==
  \/ DocumentEvents(ToolFiles)
  \/ PointerEvents({Origin}, {Origin}, {Corner}, {FirstTime},
                   MaxAnnotations, MaxAnnotations)
  \/ ToolbarEvents({<<"a">>}, {DefaultFontSize}, {DefaultColor})
  \/ ZoomEvents(MinScale, MaxScale)

SpecZoom == Init /\ [][NextZoom]_vars

NextExport ==
  \/ DocumentEvents({"doc.pdf", "broken.pdf"})
  \/ NavigationEvents
  \/ PointerEvents({Corner}, {Origin}, {Corner}, {FirstTime},
                   MaxAnnotations, MaxAnnotations)
  \/ ToolbarEvents({<<"a">>}, {DefaultFontSize}, {Red})
  \/ ExportsInTurn

SpecExport == Init /\ [][NextExport]_vars

NextRace ==
  \/ DocumentEvents({"doc.pdf", "broken.pdf"})
  \/ NavigationEvents
  \/ ExportEvents(MaxRacing)

SpecRace == Init /\ [][NextRace]_vars

(***************************************************************************)
(* SpecLive: the failures of the editor - a file of another type, a load   *)
(* error, a click with empty text, a drag that spans nothing, a failed     *)
(* export - under the assumption that the rendering service answers every  *)
(* load with onLoadSuccess or onLoadError.                                 *)
(***************************************************************************)
LoadCompletes ==
  \/ \E n \in 0..MaxPages : onDocumentLoadSuccess(n)
  \/ onDocumentLoadError

NextLive ==
  \/ DocumentEvents({"single.pdf", "broken.pdf", "notes.txt"})
  \/ PointerEvents({Origin}, {Origin}, {Origin, Corner}, {FirstTime},
                   MaxAnnotations, MaxAnnotations)
  \/ ToolbarEvents({<<"a">>}, {DefaultFontSize}, {DefaultColor})
  \/ ExportsInTurn

SpecLive == Init /\ [][NextLive]_vars /\ WF_vars(LoadCompletes)

(***************************************************************************)
(* Claims about the document's life cycle.                                 *)
(***************************************************************************)
\* C1: accepting a file of PDF media type leaves textAnnotations and
\* blurAreas empty and currentPage = 1 right after the event, whatever the
\* annotations, the page and the tool were before.
C1_UploadResets ==
  [][\A f \in PdfFiles :
       handleFileUpload(f) =>
         textAnnotations' = <<>> /\ blurAreas' = <<>> /\ currentPage' = 1]_vars

\* a file has just been accepted over an earlier multi-page document, with a
\* tool other than Select active
C1_Witness ==
  /\ toast = "PDF file selected, loading..."
  /\ numPages = MaxPages
  /\ activeTool = "erase"
  /\ textAnnotations = <<>> /\ blurAreas = <<>> /\ currentPage = 1

\* C6 as claimed: a tool interaction changes a collection, and an export
\* starts, only in DocumentReady (the selected file has loaded).
C6_OnlyWhenReady ==
  [][(\/ toast' \in {"Text annotation added", "Blur area added"}
      \/ toast' = "Annotation erased" /\ storeVars' # storeVars
      \/ toast' = "Generating modified PDF...")
     => docState = "ready"]_vars

\* C7 as claimed: once a document has loaded, 1 <= currentPage <= numPages,
\* for every page count >= 0 the rendering service reports.
C7_PageInRange ==
  docState = "ready" => 1 <= currentPage /\ currentPage <= numPages

\* C7, amended: once a document of at least one page has loaded,
\* 1 <= currentPage <= numPages.
C7_PageInRangeOfNonEmpty ==
  (docState = "ready" /\ numPages >= 1) =>
    1 <= currentPage /\ currentPage <= numPages

\* the last page of the multi-page document, reached by navigation
C7_Witness ==
  /\ docState = "ready"
  /\ numPages = MaxPages
  /\ currentPage = numPages
  /\ currentPage > 1

\* C8 as claimed: while no document is loaded (none selected, load pending,
\* load failed) numPages = 0 and currentPage = 1.
C8_NoDocumentNoPages ==
  docState # "ready" => numPages = 0 /\ currentPage = 1

(***************************************************************************)
(* Claims about the pointer tools.                                         *)
(***************************************************************************)
\* the pointer position of document point d at the current scale
ClientX(d) == RectLeft + d[1] * scale
ClientY(d) == RectTop + d[2] * scale

\* the step is a click, a press or a release at document point d
ClickAt(d) == \E t \in Times : handleCanvasClick(ClientX(d), ClientY(d), t)
PressAt(d) == handleMouseDown(ClientX(d), ClientY(d))
ReleaseAt(d) == \E t \in Times : handleMouseUp(ClientX(d), ClientY(d), t)

HasInk(s) == \E i \in 1..Len(s) : s[i] # " "

\* one annotation at d with the pending text, size and colour was appended,
\* the pending text was cleared, size and colour were kept
TextPlacedAt(d) ==
  /\ Len(textAnnotations') = Len(textAnnotations) + 1
  /\ SubSeq(textAnnotations', 1, Len(textAnnotations)) = textAnnotations
  /\ LET a == textAnnotations'[Len(textAnnotations')]
     IN  /\ a.x = d[1] /\ a.y = d[2]
         /\ a.text = newText
         /\ a.fontSize = fontSize
         /\ a.color = textColor
  /\ newText' = <<>>
  /\ fontSize' = fontSize
  /\ textColor' = textColor

\* C4 as claimed: a click in text mode with non-empty pending text appends
\* one TextAnnotation at the click's document point with the pending text,
\* font size and colour, and clears the pending text only.
C4_NonEmptyTextPlaced ==
  [][\A d \in GeomPoints :
       (activeTool = "text" /\ newText # <<>> /\ ClickAt(d))
         => TextPlacedAt(d)]_vars

\* C4, amended: the same for a pending text that is not blank (holds a
\* character other than white space); the text is stored as typed.
C4_InkedTextPlaced ==
  [][\A d \in GeomPoints :
       (activeTool = "text" /\ HasInk(newText) /\ ClickAt(d))
         => TextPlacedAt(d)]_vars

\* a second annotation was placed while zoomed, with the large red font
C4_Witness ==
  /\ toast = "Text annotation added"
  /\ Len(textAnnotations) = 2
  /\ scale # DefaultScale
  /\ textAnnotations[2] =
       [id |-> NumberToString(FirstTime), x |-> Corner[1], y |-> Corner[2],
        text |-> Indented, fontSize |-> LargeFontSize, color |-> Red]
  /\ newText = <<>> /\ fontSize = LargeFontSize /\ textColor = Red

\* C5: a click in text mode with empty pending text raises the validation
\* notification and changes nothing else of the session.
C5_EmptyTextRejected ==
  [][\A d \in GeomPoints :
       (activeTool = "text" /\ newText = <<>> /\ ClickAt(d))
         => /\ toast' = "Please enter text before placing it on the PDF"
            /\ UNCHANGED <<textAnnotations, blurAreas, newText, fontSize,
                           textColor, activeTool, docVars, scale, dragVars>>]_vars

\* the rejection, with an annotation already placed and a size and colour
\* other than the defaults
C5_Witness ==
  /\ toast = "Please enter text before placing it on the PDF"
  /\ activeTool = "text"
  /\ newText = <<>>
  /\ textAnnotations # <<>>
  /\ fontSize = LargeFontSize /\ textColor = Red

\* C10 as claimed: no two annotations of one collection share an identifier.
C10_UniqueIds ==
  /\ \A i, j \in 1..Len(textAnnotations) :
       i # j => textAnnotations[i].id # textAnnotations[j].id
  /\ \A i, j \in 1..Len(blurAreas) : i # j => blurAreas[i].id # blurAreas[j].id

Lower(a, b) == IF a <= b THEN a ELSE b
Span(a, b) == IF a <= b THEN b - a ELSE a - b

\* C2: a press in blur mode records its document point; a release at
\* (x2, y2) of a drag begun at (x1, y1) appends the one area
\* [min(x1,x2), min(y1,y2), |x2-x1|, |y2-y1|] if both extents exceed 10, and
\* otherwise leaves blurAreas alone and reports the area as too small.
C2_BlurDrag ==
  [][\A d \in GeomPoints :
       /\ (activeTool = "blur" /\ PressAt(d))
            => (isDrawing' /\ startPoint' = d /\ blurAreas' = blurAreas)
       /\ (activeTool = "blur" /\ isDrawing /\ startPoint # NoPoint
             /\ ReleaseAt(d))
            => LET w == Span(startPoint[1], d[1])
                   h == Span(startPoint[2], d[2])
               IN  IF w > MinBlurSize /\ h > MinBlurSize
                   THEN /\ Len(blurAreas') = Len(blurAreas) + 1
                        /\ SubSeq(blurAreas', 1, Len(blurAreas)) = blurAreas
                        /\ LET a == blurAreas'[Len(blurAreas')]
                           IN  /\ a.x = Lower(startPoint[1], d[1])
                               /\ a.y = Lower(startPoint[2], d[2])
                               /\ a.width = w
                               /\ a.height = h
                   ELSE /\ blurAreas' = blurAreas
                        /\ toast' = "Blur area too small - drag a larger area"]_vars

\* a second area was added, and it is not the 11 x 11 one
C2_Witness ==
  /\ toast = "Blur area added"
  /\ Len(blurAreas) = 2
  /\ blurAreas[2].width > Corner[1]
  /\ scale # DefaultScale

\* the indices of s whose element is to go
Doomed(s, goes(_)) == {i \in 1..Len(s) : goes(s[i])}

\* after is before without the elements at the indices gone, in order
IsWithout(before, after, gone) ==
  /\ Len(after) = Len(before) - Cardinality(gone)
  /\ \A k \in 1..Len(after) :
       \E i \in (1..Len(before)) \ gone :
         /\ Cardinality({j \in (1..i) \ gone : TRUE}) = k
         /\ after[k] = before[i]

\* C3: a press in erase mode at p removes the annotations within distance
\* 30 of p and the areas whose rectangle (edges included) holds p, and
\* keeps all others in their order.
C3_Erase ==
  [][\A p \in GeomPoints :
       (activeTool = "erase" /\ PressAt(p)) =>
         LET near(a) == (a.x - p[1]) * (a.x - p[1])
                          + (a.y - p[2]) * (a.y - p[2])
                          <= EraseRadius * EraseRadius
             holds(b) == /\ b.x <= p[1] /\ p[1] <= b.x + b.width
                         /\ b.y <= p[2] /\ p[2] <= b.y + b.height
         IN  /\ IsWithout(textAnnotations, textAnnotations',
                          Doomed(textAnnotations, near))
             /\ IsWithout(blurAreas, blurAreas', Doomed(blurAreas, holds))]_vars

\* an erase has left the annotation at the origin, farther than 30 from
\* the far point, and the two areas that do not reach the far point
C3_Witness ==
  /\ toast = "Annotation erased"
  /\ Len(textAnnotations) = 1 /\ textAnnotations[1].x = Origin[1]
  /\ Len(blurAreas) = 2
  /\ blurAreas[1].width < blurAreas[2].width
  /\ blurAreas[2].width < FarPoint[1]

(***************************************************************************)
(* Claims about the zoom scale.                                            *)
(***************************************************************************)
\* C9: the scale starts at 1.0, stays within [0.5, 3.0], and only zoomIn
\* and zoomOut change it.
C9_ScaleBounded ==
  /\ scale = DefaultScale
  /\ [](MinScale <= scale /\ scale <= MaxScale)
  /\ [][scale' # scale => zoomIn \/ zoomOut]_vars

\* the lower limit, which only the clamp of zoomOut reaches (0.6 - 0.2)
C9_Witness == scale = MinScale /\ textAnnotations # <<>>


(***************************************************************************)
(* Claims about cancelling, failing and serialising.                       *)
(***************************************************************************)
\* C11 as claimed: a change of the active tool away from blur while a drag
\* is in progress cancels the drag: its start point is dropped, so that no
\* later pointer-up can build a BlurArea from it.
C11_ToolChangeCancelsDrag ==
  [][(activeTool = "blur" /\ isDrawing /\ activeTool' # "blur")
       => (~isDrawing' /\ startPoint' = NoPoint)]_vars

\* the export in flight at position i cannot succeed: its bytes do not
\* parse, or its page index is not a page of the parsed document
CannotExport(e) ==
  \/ FilePages(e.file) < 0
  \/ ~(1 <= e.page /\ e.page <= FilePages(e.file))

\* C12 as claimed: an export whose bytes cannot be parsed, or whose page
\* index is not a page of the document, ends in the failure outcome with no
\* download, whatever the collections hold (both empty included).
C12_ExportFailure ==
  [][\A i \in 1..Len(exports) :
       (CannotExport(exports[i]) /\ ExportSettle(i))
         => /\ toast' = "Failed to save PDF. Please try again."
            /\ download' = NoDownload]_vars

\* C13 as claimed: after onDocumentLoadError there is no active document
\* and both collections are empty, whatever happened since the selection.
C13_LoadFailureIsNoDocument ==
  [][onDocumentLoadError
       => (pdfFile' = Null /\ textAnnotations' = <<>> /\ blurAreas' = <<>>)]_vars

\* C14: selecting a file that is not of PDF media type, or no file, raises
\* the validation notification and leaves pdfFile, pdfLoading, numPages,
\* currentPage and both collections as they were; no load starts.
C14_InvalidFileRejected ==
  [][\A f \in (AllFiles \ PdfFiles) \cup {Null} :
       handleFileUpload(f)
         => /\ toast' = "Please select a valid PDF file"
            /\ UNCHANGED <<pdfFile, pdfLoading, numPages, currentPage,
                           textAnnotations, blurAreas, docState>>]_vars

\* the rejection, on the last page of a loaded document that carries an
\* annotation and a blur area
C14_Witness ==
  /\ toast = "Please select a valid PDF file"
  /\ docState = "ready"
  /\ currentPage = MaxPages
  /\ textAnnotations # <<>> /\ blurAreas # <<>>

\* C15 as claimed: at most one export is in flight at any time.
C15_OneExportInFlight == Len(exports) <= 1

\* C16: while a load is in flight pdfLoading is true and no control can
\* start a load, and no handleFileUpload happens before it completes.
C16_OneLoadInFlight ==
  /\ [](docState = "loading" => pdfLoading /\ ~UploadEnabled)
  /\ [][(\E f \in AllFiles \cup {Null} : handleFileUpload(f))
          => docState # "loading"]_vars

\* a load in flight over an earlier document, with an annotation placed
\* since the file was accepted
C16_Witness ==
  /\ docState = "loading"
  /\ numPages = MaxPages
  /\ textAnnotations # <<>>

(***************************************************************************)
(* Claims about the exported file.                                         *)
(***************************************************************************)
\* the colour components pdf-lib receives for the colours of the inputs
Components(color) == IF color = Red THEN <<255, 0, 0>> ELSE <<0, 0, 0>>

\* C17: a successful export draws on the page of its page index only: one
\* text per TextAnnotation at (x, pageHeight - y) with the stored size and
\* colour, then one rectangle per BlurArea at (x, pageHeight - y - height)
\* of size (width, height) and opacity 0.7, in collection order, and no
\* draw at all when both collections are empty.
C17_ExportDraws ==
  [][\A i \in 1..Len(exports) :
       (ExportSettle(i) /\ toast' = "PDF downloaded successfully!") =>
         LET e == exports[i]
             nTexts == Len(e.texts)
             nAreas == Len(e.areas)
             d == download'.draws
         IN  /\ download'.page = e.page
             /\ Len(d) = nTexts + nAreas
             /\ \A k \in 1..nTexts :
                  /\ d[k].op = "drawText"
                  /\ d[k].text = e.texts[k].text
                  /\ d[k].x = e.texts[k].x
                  /\ d[k].y = PageHeight - e.texts[k].y
                  /\ d[k].size = e.texts[k].fontSize
                  /\ d[k].color = Components(e.texts[k].color)
             /\ \A k \in 1..nAreas :
                  /\ d[nTexts + k].op = "drawRectangle"
                  /\ d[nTexts + k].x = e.areas[k].x
                  /\ d[nTexts + k].y + e.areas[k].height
                       = PageHeight - e.areas[k].y
                  /\ d[nTexts + k].width = e.areas[k].width
                  /\ d[nTexts + k].height = e.areas[k].height
                  /\ d[nTexts + k].opacity = BlurOpacity]_vars

\* page 2 was exported with a red text and a blur area
C17_Witness ==
  /\ toast = "PDF downloaded successfully!"
  /\ download.page = MaxPages
  /\ Len(download.draws) = 2
  /\ download.draws[1].color = <<255, 0, 0>>
  /\ download.draws[2].op = "drawRectangle"

(***************************************************************************)
(* Claims about what the collections hold and what changes them.           *)
(***************************************************************************)
\* C19: every stored BlurArea has width and height greater than 10 (and so
\* strictly positive), after any drags, erases, removals, zooms and uploads.
C19_BlurAreasExceedMinimum ==
  \A i \in 1..Len(blurAreas) :
    blurAreas[i].width > MinBlurSize /\ blurAreas[i].height > MinBlurSize

\* a drag of 10 x 11 was just discarded, with the smallest area stored
C19_Witness ==
  /\ toast = "Blur area too small - drag a larger area"
  /\ Len(blurAreas) = 1
  /\ blurAreas[1].width = MinBlurSize + 1
  /\ scale # DefaultScale

\* the identifiers held by the collections
StoredIds ==
  {textAnnotations[i].id : i \in 1..Len(textAnnotations)}
    \cup {blurAreas[i].id : i \in 1..Len(blurAreas)}

\* C20: textAnnotations and blurAreas change only in a text-mode click, a
\* blur-mode pointer-up, an erase-mode pointer-down, removeAnnotation and an
\* accepted upload; zoom, page navigation, tool selection, load completion
\* and every pointer event in Select mode leave both as they were.
C20_StoreFrame ==
  [][/\ storeVars' # storeVars =>
          \/ activeTool = "text" /\ \E d \in GeomPoints : ClickAt(d)
          \/ activeTool = "blur" /\ \E d \in GeomPoints : ReleaseAt(d)
          \/ activeTool = "erase" /\ \E d \in GeomPoints : PressAt(d)
          \/ \E id \in StoredIds, type \in {"text", "blur"} :
               removeAnnotation(id, type)
          \/ \E f \in PdfFiles : handleFileUpload(f)
     /\ (\/ zoomIn \/ zoomOut
         \/ previousPage \/ nextPage
         \/ \E tool \in Tools : setActiveTool(tool)
         \/ \E n \in 0..MaxPages : onDocumentLoadSuccess(n)
         \/ onDocumentLoadError
         \/ /\ activeTool = "select"
            /\ \E d \in GeomPoints : ClickAt(d) \/ PressAt(d) \/ ReleaseAt(d))
        => storeVars' = storeVars]_vars

\* both collections filled, then the view zoomed and moved to the last page
C20_Witness ==
  /\ toast = NoToast
  /\ scale # DefaultScale
  /\ currentPage = MaxPages
  /\ activeTool = "select"
  /\ textAnnotations # <<>> /\ blurAreas # <<>>

(***************************************************************************)
(* Claims about export and the session.                                    *)
(***************************************************************************)
\* C21: an export changes no session state, at its request and at its
\* completion, on success and on failure: pdfFile, numPages, currentPage,
\* scale, activeTool, both collections and the pending text settings stay.
C21_ExportFrame ==
  [][(downloadModifiedPDF \/ \E i \in 1..Len(exports) : ExportSettle(i))
       => UNCHANGED <<pdfFile, numPages, currentPage, pdfLoading, scale,
                      activeTool, textAnnotations, blurAreas, newText,
                      fontSize, textColor, isDrawing, startPoint>>]_vars

\* an export has just failed, on the last page, with both collections
\* filled, a pending text and a tool other than Select
C21_Witness ==
  /\ toast = "Failed to save PDF. Please try again."
  /\ currentPage = MaxPages
  /\ textAnnotations # <<>> /\ blurAreas # <<>>
  /\ newText # <<>>
  /\ activeTool = "text"

\* C22: an export works on a snapshot.  The request records the file, the
\* page index and both collections of that moment; no other event alters
\* what an export in flight holds; and the delivered file is drawn from it.
C22_ExportSnapshot ==
  [][/\ (downloadModifiedPDF /\ pdfFile # Null)
          => exports' = Append(exports, [file |-> pdfFile,
                                         page |-> currentPage,
                                         texts |-> textAnnotations,
                                         areas |-> blurAreas])
     /\ (exports' # exports)
          => \/ downloadModifiedPDF
             \/ \E i \in 1..Len(exports) : ExportSettle(i)
     /\ \A i \in 1..Len(exports) :
          (ExportSettle(i) /\ toast' = "PDF downloaded successfully!")
            => /\ download'.page = exports[i].page
               /\ download'.draws = Draws(exports[i].texts, exports[i].areas)]_vars

\* a file with two draws on the last page was delivered after another file
\* had been selected, which emptied the collections and reset the page
C22_Witness ==
  /\ toast = "PDF downloaded successfully!"
  /\ Len(download.draws) = 2
  /\ download.page = MaxPages
  /\ pdfFile = "broken.pdf"
  /\ textAnnotations = <<>> /\ blurAreas = <<>>
  /\ currentPage = 1

\* the notifications of the five failures
FailureToasts ==
  {"Please select a valid PDF file",
   "Failed to load PDF file. Please try again.",
   "Please enter text before placing it on the PDF",
   "Blur area too small - drag a larger area",
   "Failed to save PDF. Please try again."}

\* C23: no failure is fatal.  After each failure the upload control is
\* enabled again, at once or when the pending load completes, and every
\* accepted upload is followed by pdfLoading = false.
C23_NoFailureIsFatal ==
  /\ (toast \in FailureToasts) ~> UploadEnabled
  /\ pdfLoading ~> (~pdfLoading /\ UploadEnabled)

\* a load has failed and the upload control is enabled again, with an
\* annotation placed while the file was loading
C23_Witness ==
  /\ toast = "Failed to load PDF file. Please try again."
  /\ ~pdfLoading /\ UploadEnabled
  /\ textAnnotations # <<>>

\* C24: annotations are not bound to a page.  Moving to another page keeps
\* every stored annotation and blur area, and an export requested on page j
\* takes all of them, whichever page was shown when they were made, and
\* draws one operation for each onto page j.
C24_NotBoundToPage ==
  [][/\ (previousPage \/ nextPage)
          => /\ currentPage' # currentPage
             /\ textAnnotations' = textAnnotations
             /\ blurAreas' = blurAreas
     /\ (downloadModifiedPDF /\ pdfFile # Null)
          => LET e == exports'[Len(exports')]
             IN  /\ e.page = currentPage
                 /\ Len(e.texts) = Len(textAnnotations)
                 /\ Len(e.areas) = Len(blurAreas)
     /\ \A i \in 1..Len(exports) :
          (ExportSettle(i) /\ toast' = "PDF downloaded successfully!")
            => /\ download'.page = exports[i].page
               /\ Len(download'.draws)
                    = Len(exports[i].texts) + Len(exports[i].areas)]_vars

\* the first page was exported with both collections drawn, and the editor
\* now shows the last page with both collections still held
C24_Witness ==
  /\ toast = "PDF downloaded successfully!"
  /\ download.page = 1
  /\ Len(download.draws) = 2
  /\ currentPage = MaxPages
  /\ Len(textAnnotations) = 1 /\ Len(blurAreas) = 1

=============================================================================
